---- MODULE Spec2Model ----
(***************************************************************************)
(* Reviewer assignment and pull-request lifecycle of pr-service.           *)
(*                                                                         *)
(* State: the three tables of migrations/001_init.sql (teams, users,       *)
(* pull_requests), the wall clock read by time.Now(), the outcome of the   *)
(* last completed request, and the in-flight requests of two workers.      *)
(*                                                                         *)
(* Three specifications are defined:                                       *)
(*   Spec      the service as built: every request runs Service.* over     *)
(*             Repository.* exactly as written, one request at a time.     *)
(*   SpecSvc   the Service methods applied to the pull request row that    *)
(*             the SELECT of GetPullRequest reads, one request at a time.  *)
(*   SpecRace  as SpecSvc, with the storage accesses of merge and reassign *)
(*             requests of two workers interleaved.                        *)
(*   SpecFault the storage accesses of createPullRequest and               *)
(*             reassignReviewer requests of two workers interleaved, where *)
(*             an access may fail to run.                                  *)
(*   SpecTeam  the statements of createTeam transactions and getTeam       *)
(*             requests of two workers interleaved.                        *)
(* Repository.GetPullRequest as written decodes a local string that is     *)
(* never filled from the row, so under Spec no merge or reassign request   *)
(* gets past its fetch; SpecSvc and SpecRace exercise the code of          *)
(* service.go that follows the fetch.                                      *)
(***************************************************************************)
EXTENDS Integers, Sequences, FiniteSets, TLC

VARIABLES teams, users, prs, clock, last, req

vars == <<teams, users, prs, clock, last, req>>

(***************************************************************************)
(* Bounds of the model.                                                    *)
(***************************************************************************)
NumUsers == 4
NumTeams == 2
NumPRs == 1
MaxClock == 4

(* max passed to selectRandomReviewers by CreatePullRequest. *)
MaxReviewers == 2

(* merged_at IS NULL / MergedAt == nil. *)
NullTime == 0

UserPool == <<"u1", "u2", "u3", "u4", "u5", "u6">>
TeamPool == <<"backend", "frontend", "mobile", "infra">>
PRPool == <<"pr-1", "pr-2", "pr-3">>

UserIDs == {UserPool[i] : i \in 1..NumUsers}
TeamNames == {TeamPool[i] : i \in 1..NumTeams}
PRIDs == {PRPool[i] : i \in 1..NumPRs}
PRNames == {"fix"}
Workers == {"w1", "w2"}

(***************************************************************************)
(* Errors, as the strings the code builds.                                 *)
(***************************************************************************)
NoError == "nil"
ErrTeamExists == "team already exists"
ErrUserNotFound == "user not found"
ErrAuthorNotFound == "author not found"
ErrPRExists == "PR id already exists"
ErrPRNotFound == "PR not found"
ErrUnexpectedEnd == "unexpected end of JSON input"
ErrInvalidJSON == "invalid character"
ErrMerged == "cannot reassign on merged PR"
ErrNotAssigned == "reviewer is not assigned to this PR"
ErrOldReviewerNotFound == "old reviewer not found"
ErrNoCandidate == "no active replacement candidate in team"

(* What database/sql returns when the query could not be run. *)
ErrBadConn == "driver: bad connection"

(* What the INSERT of a primary key already stored returns. *)
ErrUniqueViolation == "pq: duplicate key value violates unique constraint"
ErrTeamNotFound == "team not found"

(* What PostgreSQL answers to = ANY (...) over an operand that is no array. *)
ErrAnyNeedsArray == "op ANY/ALL (array) requires array on right side"

(* A nil pointer / absent value. *)
Nil == [nil |-> TRUE]

(***************************************************************************)
(* Helpers.                                                                *)
(***************************************************************************)
Range(s) == {s[i] : i \in 1..Len(s)}

IsInjective(s) == \A i, j \in 1..Len(s) : s[i] = s[j] => i = j

(* All orders in which the elements of S can be listed. *)
RECURSIVE Orderings(_)
Orderings(S) ==
    IF S = {}
    THEN {<<>>}
    ELSE UNION {{<<x>> \o s : s \in Orderings(S \ {x})} : x \in S}

(***************************************************************************)
(* encoding/json on []string, over token sequences.                        *)
(***************************************************************************)
Marshal(list) ==
    IF Len(list) = 0
    THEN <<"[", "]">>
    ELSE <<"[">>
         \o [i \in 1..(2 * Len(list) - 1) |->
                IF i % 2 = 1 THEN list[(i + 1) \div 2] ELSE ","]
         \o <<"]">>

Unmarshal(data) ==
    LET n == Len(data) IN
    IF n = 0
    THEN [err |-> ErrUnexpectedEnd, value |-> <<>>]
    ELSE IF n < 2 \/ data[1] # "[" \/ data[n] # "]"
    THEN [err |-> ErrInvalidJSON, value |-> <<>>]
    ELSE [err |-> NoError,
          value |-> [i \in 1..((n - 1) \div 2) |-> data[2 * i]]]

(***************************************************************************)
(* Repository.                                                             *)
(***************************************************************************)

(* UpsertMembers with ON CONFLICT DO NOTHING: a stored user is left as it is. *)
UpsertMembers_InsertOnly(table, teamName, members) ==
    [u \in DOMAIN table \cup DOMAIN members |->
        IF u \in DOMAIN table
        THEN table[u]
        ELSE [team_name |-> teamName, is_active |-> members[u]]]

(* The users table after the upserts of CreateTeam: members maps each      *)
(* declared user_id to its is_active flag.                                 *)
UpsertMembers(table, teamName, members) ==
    [u \in DOMAIN table \cup DOMAIN members |->
        IF u \in DOMAIN members
        THEN [team_name |-> teamName, is_active |-> members[u]]
        ELSE table[u]]

(* GetUserByID returning the zero User, and no error, when no row matches. *)
GetUserByID_ZeroUser(userID) ==
    IF userID \in DOMAIN users
    THEN [err |-> NoError,
          user |-> [UserID |-> userID,
                    TeamName |-> users[userID].team_name,
                    IsActive |-> users[userID].is_active]]
    ELSE [err |-> NoError,
          user |-> [UserID |-> "", TeamName |-> "", IsActive |-> FALSE]]

GetUserByID(userID) ==
    IF userID \in DOMAIN users
    THEN [err |-> NoError,
          user |-> [UserID |-> userID,
                    TeamName |-> users[userID].team_name,
                    IsActive |-> users[userID].is_active]]
    ELSE [err |-> ErrUserNotFound, user |-> Nil]

(* The user_ids the query of GetActiveTeamMembers selects; the rows come   *)
(* back in no stated order.                                                *)
GetActiveTeamMembers(teamName, excludeUserID) ==
    {u \in DOMAIN users :
        /\ users[u].team_name = teamName
        /\ users[u].is_active
        /\ u # excludeUserID}

(* The row the INSERT of CreatePullRequest writes. *)
InsertRow(pr) ==
    [pull_request_name |-> pr.PullRequestName,
     author_id |-> pr.AuthorID,
     status |-> pr.Status,
     assigned_reviewers |-> Marshal(pr.AssignedReviewers),
     created_at |-> pr.CreatedAt,
     merged_at |-> NullTime]

(* InsertPullRequest with ON CONFLICT DO NOTHING: no error on a stored id. *)
InsertPullRequest_IgnoreConflict(table, pr) ==
    IF pr.PullRequestID \in DOMAIN table
    THEN [err |-> NoError, table |-> table]
    ELSE [err |-> NoError,
          table |-> table @@ (pr.PullRequestID :> InsertRow(pr))]

(* InsertPullRequest replacing the row of an id already stored. *)
InsertPullRequest_Overwrite(table, pr) ==
    [err |-> NoError,
     table |-> (pr.PullRequestID :> InsertRow(pr)) @@ table]

(* Repository.CreatePullRequest: pull_request_id is the primary key, so the *)
(* INSERT of an id already stored fails and the table is as it was.         *)
InsertPullRequest(table, pr) ==
    IF pr.PullRequestID \in DOMAIN table
    THEN [err |-> ErrPRExists, table |-> table]
    ELSE [err |-> NoError,
          table |-> table @@ (pr.PullRequestID :> InsertRow(pr))]

(* The pull request struct filled from a row, reviewers decoded from data. *)
DecodePullRequest(prID, data) ==
    LET row == prs[prID]
        dec == Unmarshal(data)
    IN  IF dec.err # NoError
        THEN [err |-> dec.err, pr |-> Nil]
        ELSE [err |-> NoError,
              pr |-> [PullRequestID |-> prID,
                      PullRequestName |-> row.pull_request_name,
                      AuthorID |-> row.author_id,
                      Status |-> row.status,
                      AssignedReviewers |-> dec.value,
                      CreatedAt |-> row.created_at,
                      MergedAt |-> row.merged_at]]

(* GetPullRequest as written: reviewersJSON is declared and never assigned, *)
(* so the empty string is what json.Unmarshal is given.                     *)
GetPullRequest(prID) ==
    LET reviewersJSON == <<>> IN
    IF prID \notin DOMAIN prs
    THEN [err |-> ErrPRNotFound, pr |-> Nil]
    ELSE DecodePullRequest(prID, reviewersJSON)

(* The row the SELECT of GetPullRequest reads, assigned_reviewers decoded   *)
(* from the selected column.                                                *)
ScanPullRequest(prID) ==
    IF prID \notin DOMAIN prs
    THEN [err |-> ErrPRNotFound, pr |-> Nil]
    ELSE DecodePullRequest(prID, prs[prID].assigned_reviewers)

(* UpdatePullRequest with merged_at left out of the SET list. *)
UpdatePullRequest_NoMergedAt(table, pr) ==
    [id \in DOMAIN table |->
        IF id = pr.PullRequestID
        THEN [table[id] EXCEPT !.status = pr.Status,
                               !.assigned_reviewers = Marshal(pr.AssignedReviewers)]
        ELSE table[id]]

(* The pull_requests table after the UPDATE of UpdatePullRequest. *)
UpdatePullRequest(table, pr) ==
    [id \in DOMAIN table |->
        IF id = pr.PullRequestID
        THEN [table[id] EXCEPT !.status = pr.Status,
                               !.assigned_reviewers = Marshal(pr.AssignedReviewers),
                               !.merged_at = pr.MergedAt]
        ELSE table[id]]

(* The type of pull_requests.assigned_reviewers, and the types over which   *)
(* = ANY (...) is defined.                                                  *)
ReviewersColumnType == "jsonb"

ArrayTypes == {"text[]", "varchar[]"}

(* The query of GetUserReviewPullRequests: the rows whose assigned_reviewers *)
(* holds userID, when the column is of a type = ANY (...) applies to.        *)
SelectReviewPullRequests(userID) ==
    IF ReviewersColumnType \notin ArrayTypes
    THEN [err |-> ErrAnyNeedsArray, rows |-> {}]
    ELSE [err |-> NoError,
          rows |-> {[pull_request_id |-> id,
                     pull_request_name |-> prs[id].pull_request_name,
                     author_id |-> prs[id].author_id,
                     status |-> prs[id].status] :
                    id \in {i \in DOMAIN prs :
                               \E k \in 1..Len(prs[i].assigned_reviewers) :
                                   prs[i].assigned_reviewers[k] = userID}}]

(***************************************************************************)
(* Service.                                                                *)
(***************************************************************************)

(* selectRandomReviewers without the cut to max. *)
selectRandomReviewers_NoCap(members, max, shuffled) ==
    IF Len(members) = 0 THEN <<>> ELSE shuffled

(* users as GetActiveTeamMembers returned them, shuffled as rand.Shuffle    *)
(* left the copy.                                                           *)
selectRandomReviewers(members, max, shuffled) ==
    IF Len(members) = 0
    THEN <<>>
    ELSE IF Len(members) <= max
    THEN members
    ELSE SubSeq(shuffled, 1, max)

(* MergePullRequest from the result of its fetch: the error and record      *)
(* returned, and the record handed to UpdatePullRequest (Nil: no update).   *)
MergeFrom(got, now) ==
    IF got.err # NoError
    THEN [err |-> got.err, pr |-> Nil, update |-> Nil]
    ELSE IF got.pr.Status = "MERGED"
    THEN [err |-> NoError, pr |-> got.pr, update |-> Nil]
    ELSE LET merged == [got.pr EXCEPT !.Status = "MERGED", !.MergedAt = now]
         IN  [err |-> NoError, pr |-> merged, update |-> merged]

(* CheckReassign without the test of the status. *)
CheckReassign_NoMergedTest(got, oldUserID) ==
    IF got.err # NoError
    THEN got.err
    ELSE IF \A i \in 1..Len(got.pr.AssignedReviewers) :
                got.pr.AssignedReviewers[i] # oldUserID
    THEN ErrNotAssigned
    ELSE NoError

(* The checks of ReassignReviewer on the fetched record. *)
CheckReassign(got, oldUserID) ==
    IF got.err # NoError
    THEN got.err
    ELSE IF got.pr.Status = "MERGED"
    THEN ErrMerged
    ELSE IF \A i \in 1..Len(got.pr.AssignedReviewers) :
                got.pr.AssignedReviewers[i] # oldUserID
    THEN ErrNotAssigned
    ELSE NoError

(* AvailableCandidates without the filter. *)
AvailableCandidates_Unfiltered(candidates, assigned) == candidates

(* candidates without those already assigned, in the order given. *)
AvailableCandidates(candidates, assigned) ==
    SelectSeq(candidates, LAMBDA c : \A i \in 1..Len(assigned) : assigned[i] # c)

(* ReplaceReviewer writing to the first slot, wherever oldUserID is. *)
ReplaceReviewer_FirstSlot(assigned, oldUserID, newUserID) ==
    IF Len(assigned) = 0 THEN assigned ELSE [assigned EXCEPT ![1] = newUserID]

(* The first entry equal to oldUserID is overwritten with newUserID. *)
ReplaceReviewer(assigned, oldUserID, newUserID) ==
    LET hits == {i \in 1..Len(assigned) : assigned[i] = oldUserID} IN
    IF hits = {}
    THEN assigned
    ELSE LET first == CHOOSE i \in hits : \A j \in hits : i <= j
         IN  [assigned EXCEPT ![first] = newUserID]

(***************************************************************************)
(* Handlers: the code and HTTP status written for a Service error.          *)
(***************************************************************************)
CreateErrorCode(err) ==
    CASE err = ErrAuthorNotFound -> [status |-> 404, code |-> "NOT_FOUND"]
      [] err = ErrPRExists -> [status |-> 409, code |-> "PR_EXISTS"]
      [] OTHER -> [status |-> 500, code |-> "INTERNAL_ERROR"]

ReassignErrorCode(err) ==
    CASE err = ErrPRNotFound -> [status |-> 404, code |-> "NOT_FOUND"]
      [] err = ErrMerged -> [status |-> 409, code |-> "PR_MERGED"]
      [] err = ErrNotAssigned -> [status |-> 409, code |-> "NOT_ASSIGNED"]
      [] err = ErrOldReviewerNotFound -> [status |-> 404, code |-> "NOT_FOUND"]
      [] err = ErrNoCandidate -> [status |-> 409, code |-> "NO_CANDIDATE"]
      [] OTHER -> [status |-> 500, code |-> "INTERNAL_ERROR"]

(***************************************************************************)
(* Requests served one at a time: the handler runs the Service method and  *)
(* the outcome is held in last until the response is written.              *)
(***************************************************************************)
Done(op, id, user, err, pr, replacedBy) ==
    [op |-> op, id |-> id, user |-> user, err |-> err, pr |-> pr,
     replacedBy |-> replacedBy]

NoRequest == Done("none", "", "", NoError, Nil, "")

(* The writes of a transaction that is not committed. *)
NoWrites == [team |-> FALSE, users |-> <<>>]

(* cause: the error of a storage call that could not be run, if one ended   *)
(* the request; members: team.Members, user_id to is_active; tx: the writes *)
(* of the request's open transaction.                                       *)
Idle == [pc |-> "idle", op |-> "none", id |-> "", old |-> "", err |-> NoError,
         pr |-> Nil, team |-> "", new |-> "", cause |-> NoError,
         members |-> <<>>, tx |-> NoWrites]

Init ==
    /\ teams = {}
    /\ users = <<>>
    /\ prs = <<>>
    /\ clock = 1
    /\ last = NoRequest
    /\ req = [w \in Workers |-> Idle]

CreateTeam ==
    /\ last = NoRequest
    /\ \E teamName \in TeamNames :
        IF teamName \in teams
        THEN /\ last' = Done("createTeam", teamName, "", ErrTeamExists, Nil, "")
             /\ UNCHANGED <<teams, users>>
        ELSE \E declared \in SUBSET UserIDs :
             \E members \in [declared -> BOOLEAN] :
                /\ teams' = teams \cup {teamName}
                /\ users' = UpsertMembers(users, teamName, members)
                /\ last' = Done("createTeam", teamName, "", NoError, Nil, "")
    /\ UNCHANGED <<prs, clock, req>>

UpdateUserActivity ==
    /\ last = NoRequest
    /\ \E userID \in UserIDs, isActive \in BOOLEAN :
        IF userID \in DOMAIN users
        THEN /\ users' = [users EXCEPT ![userID].is_active = isActive]
             /\ last' = Done("setUserActive", "", userID, NoError, Nil, "")
        ELSE /\ last' = Done("setUserActive", "", userID, ErrUserNotFound, Nil, "")
             /\ UNCHANGED users
    /\ UNCHANGED <<teams, prs, clock, req>>

CreatePullRequest ==
    /\ last = NoRequest
    /\ \E prID \in PRIDs, name \in PRNames, authorID \in UserIDs :
        LET author == GetUserByID(authorID) IN
        IF author.err # NoError
        THEN /\ last' = Done("createPullRequest", prID, authorID, ErrAuthorNotFound, Nil, "")
             /\ UNCHANGED <<prs, clock>>
        ELSE \E teamMembers \in Orderings(GetActiveTeamMembers(author.user.TeamName, authorID)) :
             \E shuffled \in Orderings(Range(teamMembers)) :
                LET reviewers == selectRandomReviewers(teamMembers, MaxReviewers, shuffled)
                    pr == [PullRequestID |-> prID,
                           PullRequestName |-> name,
                           AuthorID |-> authorID,
                           Status |-> "OPEN",
                           AssignedReviewers |-> reviewers,
                           CreatedAt |-> clock,
                           MergedAt |-> NullTime]
                    ins == InsertPullRequest(prs, pr)
                IN  IF ins.err # NoError
                    THEN /\ last' = Done("createPullRequest", prID, authorID, ins.err, Nil, "")
                         /\ UNCHANGED <<prs, clock>>
                    ELSE /\ clock < MaxClock
                         /\ clock' = clock + 1
                         /\ prs' = ins.table
                         /\ last' = Done("createPullRequest", prID, authorID, NoError, pr, "")
    /\ UNCHANGED <<teams, users, req>>

(* One MergePullRequest request on the result got of its fetch. *)
MergeRequest(prID, got) ==
    LET res == MergeFrom(got, clock) IN
        /\ last = NoRequest
        /\ IF res.update # Nil
           THEN /\ clock < MaxClock
                /\ clock' = clock + 1
                /\ prs' = UpdatePullRequest(prs, res.update)
           ELSE UNCHANGED <<prs, clock>>
        /\ last' = Done("mergePullRequest", prID, "", res.err, res.pr, "")
        /\ UNCHANGED <<teams, users, req>>

(* One ReassignReviewer request on the result got of its fetch. *)
ReassignRequest(prID, oldUserID, got) ==
    LET checked == CheckReassign(got, oldUserID)
        oldUser == GetUserByID(oldUserID)
    IN  /\ last = NoRequest
        /\ UNCHANGED <<teams, users, clock, req>>
        /\ IF checked # NoError
           THEN /\ last' = Done("reassignReviewer", prID, oldUserID, checked, Nil, "")
                /\ UNCHANGED prs
           ELSE IF oldUser.err # NoError
           THEN /\ last' = Done("reassignReviewer", prID, oldUserID, ErrOldReviewerNotFound, Nil, "")
                /\ UNCHANGED prs
           ELSE \E candidates \in Orderings(GetActiveTeamMembers(oldUser.user.TeamName, oldUserID)) :
                LET available == AvailableCandidates(candidates, got.pr.AssignedReviewers) IN
                IF Len(available) = 0
                THEN /\ last' = Done("reassignReviewer", prID, oldUserID, ErrNoCandidate, Nil, "")
                     /\ UNCHANGED prs
                ELSE \E n \in 1..Len(available) :
                        LET newReviewer == available[n]
                            pr == [got.pr EXCEPT !.AssignedReviewers =
                                      ReplaceReviewer(got.pr.AssignedReviewers,
                                                      oldUserID, newReviewer)]
                        IN  /\ prs' = UpdatePullRequest(prs, pr)
                            /\ last' = Done("reassignReviewer", prID, oldUserID,
                                            NoError, pr, newReviewer)

(* GET /users/getReview: the rows of the query, or its error. *)
GetUserReviewPullRequests ==
    /\ last = NoRequest
    /\ \E userID \in UserIDs :
          LET res == SelectReviewPullRequests(userID) IN
          last' = Done("getReview", "", userID, res.err, res.rows, "")
    /\ UNCHANGED <<teams, users, prs, clock, req>>

(* writeJSON / writeError: the handler answers and the next request runs. *)
WriteResponse ==
    /\ last # NoRequest
    /\ last' = NoRequest
    /\ UNCHANGED <<teams, users, prs, clock, req>>

(* The requests as built: the fetch is Repository.GetPullRequest. *)
MergePullRequest ==
    \E prID \in PRIDs : MergeRequest(prID, GetPullRequest(prID))

ReassignReviewer ==
    \E prID \in PRIDs, oldUserID \in UserIDs :
        ReassignRequest(prID, oldUserID, GetPullRequest(prID))

Next ==
    \/ CreateTeam
    \/ UpdateUserActivity
    \/ CreatePullRequest
    \/ MergePullRequest
    \/ ReassignReviewer
    \/ GetUserReviewPullRequests
    \/ WriteResponse

Spec == Init /\ [][Next]_vars

(* The Service methods on the row the SELECT reads. *)
MergeScanned ==
    \E prID \in PRIDs : MergeRequest(prID, ScanPullRequest(prID))

ReassignScanned ==
    \E prID \in PRIDs, oldUserID \in UserIDs :
        ReassignRequest(prID, oldUserID, ScanPullRequest(prID))

NextSvc ==
    \/ CreateTeam
    \/ UpdateUserActivity
    \/ CreatePullRequest
    \/ MergeScanned
    \/ ReassignScanned
    \/ GetUserReviewPullRequests
    \/ WriteResponse

SpecSvc == Init /\ [][NextSvc]_vars

(***************************************************************************)
(* One merge or reassign request on each of two workers, one storage        *)
(* access a step, on a team whose users are all active.                    *)
(***************************************************************************)
Finished(w, err, pr, replacedBy) ==
    [req[w] EXCEPT !.pc = "done", !.err = err, !.pr = pr, !.new = replacedBy]

(* MergePullRequest up to its update: the fetch, the MERGED test, time.Now(). *)
MergeFetch(w) ==
    /\ last = NoRequest
    /\ req[w].pc = "idle"
    /\ \E prID \in PRIDs :
        LET res == MergeFrom(ScanPullRequest(prID), clock)
            call == [Idle EXCEPT !.op = "mergePullRequest", !.id = prID]
        IN  IF res.update = Nil
            THEN /\ req' = [req EXCEPT ![w] =
                               [call EXCEPT !.pc = "done", !.err = res.err, !.pr = res.pr]]
                 /\ UNCHANGED clock
            ELSE /\ clock < MaxClock
                 /\ clock' = clock + 1
                 /\ req' = [req EXCEPT ![w] =
                               [call EXCEPT !.pc = "merge_update", !.pr = res.update]]
    /\ UNCHANGED <<teams, users, prs, last>>

MergeUpdate(w) ==
    /\ last = NoRequest
    /\ req[w].pc = "merge_update"
    /\ prs' = UpdatePullRequest(prs, req[w].pr)
    /\ req' = [req EXCEPT ![w] = Finished(w, NoError, req[w].pr, "")]
    /\ UNCHANGED <<teams, users, clock, last>>

(* ReassignReviewer up to its user lookup: the fetch and the two checks. *)
ReassignFetch(w) ==
    /\ last = NoRequest
    /\ req[w].pc = "idle"
    /\ \E prID \in PRIDs, oldUserID \in UserIDs :
        LET got == ScanPullRequest(prID)
            checked == CheckReassign(got, oldUserID)
            call == [Idle EXCEPT !.op = "reassignReviewer", !.id = prID, !.old = oldUserID]
        IN  IF checked # NoError
            THEN req' = [req EXCEPT ![w] = [call EXCEPT !.pc = "done", !.err = checked]]
            ELSE req' = [req EXCEPT ![w] = [call EXCEPT !.pc = "reassign_user", !.pr = got.pr]]
    /\ UNCHANGED <<teams, users, prs, clock, last>>

ReassignGetUser(w) ==
    /\ last = NoRequest
    /\ req[w].pc = "reassign_user"
    /\ LET oldUser == GetUserByID(req[w].old) IN
        IF oldUser.err # NoError
        THEN req' = [req EXCEPT ![w] = Finished(w, ErrOldReviewerNotFound, Nil, "")]
        ELSE req' = [req EXCEPT ![w] =
                        [req[w] EXCEPT !.pc = "reassign_members",
                                       !.team = oldUser.user.TeamName]]
    /\ UNCHANGED <<teams, users, prs, clock, last>>

(* GetActiveTeamMembers, the filter, rand.Intn and the replacement in pr. *)
ReassignSelect(w) ==
    /\ last = NoRequest
    /\ req[w].pc = "reassign_members"
    /\ \E candidates \in Orderings(GetActiveTeamMembers(req[w].team, req[w].old)) :
        LET available == AvailableCandidates(candidates, req[w].pr.AssignedReviewers) IN
        IF Len(available) = 0
        THEN req' = [req EXCEPT ![w] = Finished(w, ErrNoCandidate, Nil, "")]
        ELSE \E n \in 1..Len(available) :
                req' = [req EXCEPT ![w] =
                    [req[w] EXCEPT
                        !.pc = "reassign_update",
                        !.new = available[n],
                        !.pr = [req[w].pr EXCEPT !.AssignedReviewers =
                                   ReplaceReviewer(req[w].pr.AssignedReviewers,
                                                   req[w].old, available[n])]]]
    /\ UNCHANGED <<teams, users, prs, clock, last>>

ReassignUpdate(w) ==
    /\ last = NoRequest
    /\ req[w].pc = "reassign_update"
    /\ prs' = UpdatePullRequest(prs, req[w].pr)
    /\ req' = [req EXCEPT ![w] = Finished(w, NoError, req[w].pr, req[w].new)]
    /\ UNCHANGED <<teams, users, clock, last>>

(* The state after CreateTeam has stored the first team with every user    *)
(* active and its response is written.                                      *)
InitRace ==
    /\ teams = {TeamPool[1]}
    /\ users = UpsertMembers(<<>>, TeamPool[1], [u \in UserIDs |-> TRUE])
    /\ prs = <<>>
    /\ clock = 1
    /\ last = NoRequest
    /\ req = [w \in Workers |-> Idle]

NextRace ==
    \/ CreatePullRequest
    \/ WriteResponse
    \/ \E w \in Workers : MergeFetch(w)
    \/ \E w \in Workers : MergeUpdate(w)
    \/ \E w \in Workers : ReassignFetch(w)
    \/ \E w \in Workers : ReassignGetUser(w)
    \/ \E w \in Workers : ReassignSelect(w)
    \/ \E w \in Workers : ReassignUpdate(w)

SpecRace == InitRace /\ [][NextRace]_vars

(***************************************************************************)
(* Requests of two workers, one storage access a step, where a storage      *)
(* access may fail to run: createPullRequest in its three accesses, and the *)
(* accesses of reassignReviewer.                                            *)
(***************************************************************************)

(* The request ended by a storage call that returned dbErr; the Service     *)
(* method returns err.                                                      *)
Failed(w, err, dbErr) ==
    [req[w] EXCEPT !.pc = "done", !.err = err, !.pr = Nil, !.cause = dbErr]

(* The struct Handlers.CreatePullRequest passes to the Service. *)
PRCreate(prID, name, authorID) ==
    [PullRequestID |-> prID,
     PullRequestName |-> name,
     AuthorID |-> authorID,
     Status |-> "",
     AssignedReviewers |-> <<>>,
     CreatedAt |-> NullTime,
     MergedAt |-> NullTime]

(* CreatePullRequest up to its team query: GetUserByID on the author. *)
CreateGetAuthor(w) ==
    /\ last = NoRequest
    /\ req[w].pc = "idle"
    /\ \E prID \in PRIDs, name \in PRNames, authorID \in UserIDs :
        LET author == GetUserByID(authorID)
            call == [Idle EXCEPT !.op = "createPullRequest", !.id = prID,
                                 !.pr = PRCreate(prID, name, authorID)]
        IN  IF author.err # NoError
            THEN req' = [req EXCEPT ![w] =
                            [call EXCEPT !.pc = "done", !.err = ErrAuthorNotFound,
                                         !.pr = Nil]]
            ELSE req' = [req EXCEPT ![w] =
                            [call EXCEPT !.pc = "create_members",
                                         !.team = author.user.TeamName]]
    /\ UNCHANGED <<teams, users, prs, clock, last>>

(* GetUserByID could not run its query: any error of it ends the request    *)
(* with "author not found".                                                 *)
CreateGetAuthorFails(w) ==
    /\ last = NoRequest
    /\ req[w].pc = "idle"
    /\ \E prID \in PRIDs, name \in PRNames, authorID \in UserIDs :
        LET call == [Idle EXCEPT !.op = "createPullRequest", !.id = prID,
                                 !.pr = PRCreate(prID, name, authorID)]
        IN  req' = [req EXCEPT ![w] =
                       [call EXCEPT !.pc = "done", !.err = ErrAuthorNotFound,
                                    !.pr = Nil, !.cause = ErrBadConn]]
    /\ UNCHANGED <<teams, users, prs, clock, last>>

(* GetActiveTeamMembers, selectRandomReviewers and the record stamped with  *)
(* time.Now().                                                              *)
CreateSelect(w) ==
    /\ last = NoRequest
    /\ req[w].pc = "create_members"
    /\ clock < MaxClock
    /\ clock' = clock + 1
    /\ \E teamMembers \in Orderings(GetActiveTeamMembers(req[w].team, req[w].pr.AuthorID)) :
       \E shuffled \in Orderings(Range(teamMembers)) :
          req' = [req EXCEPT ![w] =
              [req[w] EXCEPT
                  !.pc = "create_insert",
                  !.pr = [req[w].pr EXCEPT
                             !.Status = "OPEN",
                             !.AssignedReviewers =
                                 selectRandomReviewers(teamMembers, MaxReviewers, shuffled),
                             !.CreatedAt = clock]]]
    /\ UNCHANGED <<teams, users, prs, last>>

(* GetActiveTeamMembers could not run its query: its error is returned. *)
CreateSelectFails(w) ==
    /\ last = NoRequest
    /\ req[w].pc = "create_members"
    /\ req' = [req EXCEPT ![w] = Failed(w, ErrBadConn, ErrBadConn)]
    /\ UNCHANGED <<teams, users, prs, clock, last>>

(* Repository.CreatePullRequest and the return of the Service method. *)
CreateInsert(w) ==
    /\ last = NoRequest
    /\ req[w].pc = "create_insert"
    /\ LET ins == InsertPullRequest(prs, req[w].pr) IN
        IF ins.err # NoError
        THEN /\ req' = [req EXCEPT ![w] = Failed(w, ins.err, NoError)]
             /\ UNCHANGED prs
        ELSE /\ prs' = ins.table
             /\ req' = [req EXCEPT ![w] = Finished(w, NoError, req[w].pr, "")]
    /\ UNCHANGED <<teams, users, clock, last>>

(* The INSERT could not run: any error of it is returned as "PR id already  *)
(* exists".                                                                 *)
CreateInsertFails(w) ==
    /\ last = NoRequest
    /\ req[w].pc = "create_insert"
    /\ req' = [req EXCEPT ![w] = Failed(w, ErrPRExists, ErrBadConn)]
    /\ UNCHANGED <<teams, users, prs, clock, last>>

(* GetPullRequest could not run its query: its error is returned. *)
ReassignFetchFails(w) ==
    /\ last = NoRequest
    /\ req[w].pc = "idle"
    /\ \E prID \in PRIDs, oldUserID \in UserIDs :
        LET call == [Idle EXCEPT !.op = "reassignReviewer", !.id = prID, !.old = oldUserID]
        IN  req' = [req EXCEPT ![w] =
                       [call EXCEPT !.pc = "done", !.err = ErrBadConn,
                                    !.cause = ErrBadConn]]
    /\ UNCHANGED <<teams, users, prs, clock, last>>

(* GetUserByID could not run its query: any error of it ends the request    *)
(* with "old reviewer not found".                                           *)
ReassignGetUserFails(w) ==
    /\ last = NoRequest
    /\ req[w].pc = "reassign_user"
    /\ req' = [req EXCEPT ![w] = Failed(w, ErrOldReviewerNotFound, ErrBadConn)]
    /\ UNCHANGED <<teams, users, prs, clock, last>>

NextFault ==
    \/ \E w \in Workers : CreateGetAuthor(w)
    \/ \E w \in Workers : CreateGetAuthorFails(w)
    \/ \E w \in Workers : CreateSelect(w)
    \/ \E w \in Workers : CreateSelectFails(w)
    \/ \E w \in Workers : CreateInsert(w)
    \/ \E w \in Workers : CreateInsertFails(w)
    \/ \E w \in Workers : ReassignFetch(w)
    \/ \E w \in Workers : ReassignFetchFails(w)
    \/ \E w \in Workers : ReassignGetUser(w)
    \/ \E w \in Workers : ReassignGetUserFails(w)
    \/ \E w \in Workers : ReassignSelect(w)
    \/ \E w \in Workers : ReassignUpdate(w)

SpecFault == InitRace /\ [][NextFault]_vars

(***************************************************************************)
(* createTeam and getTeam requests of two workers, one statement a step.    *)
(* The statements of CreateTeam run in a transaction: they read what is     *)
(* committed, their writes are kept in tx until Commit, a write to a row    *)
(* that another open transaction has written waits for that transaction,    *)
(* and the deferred Rollback drops tx when a statement fails.               *)
(***************************************************************************)

(* A worker whose transaction is open. *)
InTx(w) == req[w].pc \in {"team_insert", "team_members"}

(* BeginTxx and the SELECT on teams. *)
TeamCheck(w) ==
    /\ last = NoRequest
    /\ req[w].pc = "idle"
    /\ \E teamName \in TeamNames :
       \E declared \in SUBSET UserIDs :
       \E members \in [declared -> BOOLEAN] :
          LET call == [Idle EXCEPT !.op = "createTeam", !.team = teamName,
                                   !.members = members]
          IN  IF teamName \in teams
              THEN req' = [req EXCEPT ![w] =
                              [call EXCEPT !.pc = "done", !.err = ErrTeamExists]]
              ELSE req' = [req EXCEPT ![w] = [call EXCEPT !.pc = "team_insert"]]
    /\ UNCHANGED <<teams, users, prs, clock, last>>

(* INSERT INTO teams. *)
TeamInsert(w) ==
    /\ last = NoRequest
    /\ req[w].pc = "team_insert"
    /\ \A o \in Workers \ {w} :
          ~(InTx(o) /\ req[o].tx.team /\ req[o].team = req[w].team)
    /\ IF req[w].team \in teams
       THEN req' = [req EXCEPT ![w] =
                       [req[w] EXCEPT !.pc = "done", !.err = ErrUniqueViolation,
                                      !.tx = NoWrites]]
       ELSE req' = [req EXCEPT ![w] =
                       [req[w] EXCEPT !.pc = "team_members", !.tx.team = TRUE]]
    /\ UNCHANGED <<teams, users, prs, clock, last>>

(* One pass of the loop over team.Members: the upsert of one member. *)
TeamUpsert(w) ==
    /\ last = NoRequest
    /\ req[w].pc = "team_members"
    /\ \E u \in DOMAIN req[w].members \ DOMAIN req[w].tx.users :
          /\ \A o \in Workers \ {w} : ~(InTx(o) /\ u \in DOMAIN req[o].tx.users)
          /\ req' = [req EXCEPT ![w] =
                        [req[w] EXCEPT !.tx.users = @ @@ (u :> req[w].members[u])]]
    /\ UNCHANGED <<teams, users, prs, clock, last>>

(* tx.Commit(): the writes of the transaction are stored together. *)
TeamCommit(w) ==
    /\ last = NoRequest
    /\ req[w].pc = "team_members"
    /\ DOMAIN req[w].tx.users = DOMAIN req[w].members
    /\ teams' = teams \cup {req[w].team}
    /\ users' = UpsertMembers(users, req[w].team, req[w].tx.users)
    /\ req' = [req EXCEPT ![w] = [req[w] EXCEPT !.pc = "done", !.tx = NoWrites]]
    /\ UNCHANGED <<prs, clock, last>>

(* A statement of the transaction, or its Commit, returns an error: the     *)
(* error is returned and the deferred Rollback drops the writes.            *)
TeamStatementFails(w) ==
    /\ last = NoRequest
    /\ InTx(w)
    /\ req' = [req EXCEPT ![w] =
                  [req[w] EXCEPT !.pc = "done", !.err = ErrBadConn,
                                 !.cause = ErrBadConn, !.tx = NoWrites]]
    /\ UNCHANGED <<teams, users, prs, clock, last>>

(* GetTeam: the SELECT on teams. *)
GetTeamRow(w) ==
    /\ last = NoRequest
    /\ req[w].pc = "idle"
    /\ \E teamName \in TeamNames :
          LET call == [Idle EXCEPT !.op = "getTeam", !.team = teamName]
          IN  IF teamName \notin teams
              THEN req' = [req EXCEPT ![w] =
                              [call EXCEPT !.pc = "done", !.err = ErrTeamNotFound]]
              ELSE req' = [req EXCEPT ![w] = [call EXCEPT !.pc = "team_select"]]
    /\ UNCHANGED <<teams, users, prs, clock, last>>

(* GetTeam: the SELECT on users; members holds the rows returned. *)
GetTeamMembers(w) ==
    /\ last = NoRequest
    /\ req[w].pc = "team_select"
    /\ LET rows == {u \in DOMAIN users : users[u].team_name = req[w].team} IN
          req' = [req EXCEPT ![w] =
                     [req[w] EXCEPT !.pc = "done",
                                    !.members = [u \in rows |-> users[u].is_active]]]
    /\ UNCHANGED <<teams, users, prs, clock, last>>

NextTeam ==
    \/ \E w \in Workers : TeamCheck(w)
    \/ \E w \in Workers : TeamInsert(w)
    \/ \E w \in Workers : TeamUpsert(w)
    \/ \E w \in Workers : TeamCommit(w)
    \/ \E w \in Workers : TeamStatementFails(w)
    \/ \E w \in Workers : GetTeamRow(w)
    \/ \E w \in Workers : GetTeamMembers(w)

SpecTeam == Init /\ [][NextTeam]_vars

(***************************************************************************)
(* What the properties below read off the state.                           *)
(***************************************************************************)

(* The user ids in a stored assigned_reviewers document, in document order. *)
ReviewersOf(row) == SelectSeq(row.assigned_reviewers, LAMBDA t : t \in UserIDs)

(* Active users of userID's team other than userID. *)
ActiveTeammates(userID) ==
    {u \in DOMAIN users :
        /\ users[u].team_name = users[userID].team_name
        /\ users[u].is_active
        /\ u # userID}

Min(a, b) == IF a <= b THEN a ELSE b

(* The reviewer list a worker's reassign request fetched: its record with   *)
(* the replacement undone.                                                  *)
SnapshotOf(w) ==
    [i \in 1..Len(req[w].pr.AssignedReviewers) |->
        IF req[w].pr.AssignedReviewers[i] = req[w].new
        THEN req[w].old
        ELSE req[w].pr.AssignedReviewers[i]]

Reassigned(w) ==
    /\ req[w].pc = "done"
    /\ req[w].op = "reassignReviewer"
    /\ req[w].err = NoError

C4_CreateAssignsEligible ==
    (last.op = "createPullRequest" /\ last.err = NoError) =>
        LET row == prs[last.id]
            R == ReviewersOf(row)
            E == ActiveTeammates(last.user)
        IN  /\ row.status = "OPEN"
            /\ row.author_id = last.user
            /\ row.merged_at = NullTime
            /\ Range(R) \subseteq E
            /\ IsInjective(R)
            /\ Len(R) = Min(2, Cardinality(E))
            /\ last.pr.AssignedReviewers = R

(* A create that had three eligible teammates to choose two from. *)
C4_Witness ==
    /\ last.op = "createPullRequest"
    /\ last.err = NoError
    /\ Cardinality(ActiveTeammates(last.user)) = 3
    /\ Len(ReviewersOf(prs[last.id])) = 2

(***************************************************************************)
(* C5. mergePullRequest is idempotent call after call: on a stored pull     *)
(* request every call succeeds and returns status MERGED; the first one    *)
(* stores MERGED with a merge timestamp, a later one returns the stored    *)
(* merge timestamp and rewrites nothing.                                   *)
(***************************************************************************)
C5_MergeIdempotent ==
    [][(last'.op = "mergePullRequest" /\ last'.id \in DOMAIN prs) =>
          LET id == last'.id IN
          /\ last'.err = NoError
          /\ last'.pr.Status = "MERGED"
          /\ prs'[id].status = "MERGED"
          /\ last'.pr.MergedAt = prs'[id].merged_at
          /\ prs'[id].merged_at # NullTime
          /\ prs[id].status = "MERGED" => prs' = prs]_vars

C8_ReassignUnassignedConflicts ==
    [][(/\ last'.op = "reassignReviewer"
        /\ last'.id \in DOMAIN prs
        /\ prs[last'.id].status = "OPEN"
        /\ last'.user \notin Range(ReviewersOf(prs[last'.id]))) =>
          /\ last'.err = ErrNotAssigned
          /\ ReassignErrorCode(last'.err) = [status |-> 409, code |-> "NOT_ASSIGNED"]
          /\ prs' = prs]_vars

(***************************************************************************)
(* C9. reassignReviewer on an OPEN pull request for an assigned reviewer    *)
(* fails with no-candidate, storing nothing, exactly when old's team has no *)
(* active user besides old and the current reviewers; otherwise it          *)
(* succeeds.                                                               *)
(***************************************************************************)
C9_NoCandidateExactly ==
    [][(/\ last'.op = "reassignReviewer"
        /\ last'.id \in DOMAIN prs
        /\ prs[last'.id].status = "OPEN"
        /\ last'.user \in Range(ReviewersOf(prs[last'.id]))) =>
          LET pool == ActiveTeammates(last'.user) \ Range(ReviewersOf(prs[last'.id])) IN
          IF pool = {}
          THEN last'.err = ErrNoCandidate /\ prs' = prs
          ELSE last'.err = NoError]_vars

(***************************************************************************)
(* C10. Every stored assigned-reviewers list has at most two entries and    *)
(* names no user twice, whatever the interleaving.                         *)
(***************************************************************************)
C10_AtMostTwoDistinct ==
    \A id \in DOMAIN prs :
        /\ Len(ReviewersOf(prs[id])) <= 2
        /\ IsInjective(ReviewersOf(prs[id]))

(* Two reviewers stored by the later of two overlapping reassignments. *)
C10_Witness ==
    /\ \A w \in Workers : Reassigned(w)
    /\ req["w1"].id = req["w2"].id
    /\ SnapshotOf("w1") = SnapshotOf("w2")
    /\ Len(ReviewersOf(prs[req["w1"].id])) = 2

C12_AbsentAuthorRefusedFirst ==
    [][(last'.op = "createPullRequest" /\ last'.user \notin DOMAIN users) =>
          /\ last'.err = ErrAuthorNotFound
          /\ CreateErrorCode(last'.err) = [status |-> 404, code |-> "NOT_FOUND"]
          /\ prs' = prs]_vars

(* An absent author refused on an id already stored. *)
C12_Witness ==
    /\ last.op = "createPullRequest"
    /\ last.err = ErrAuthorNotFound
    /\ last.user \notin DOMAIN users
    /\ last.id \in DOMAIN prs

(***************************************************************************)
(* C13. A request ended by a storage call that could not run returns that   *)
(* call's error, which the handler answers as 500 INTERNAL_ERROR: it is     *)
(* never returned as "author not found", "old reviewer not found" or "PR id *)
(* already exists".                                                         *)
(***************************************************************************)
C13_StorageFailureSurfaces ==
    \A w \in Workers :
        (req[w].pc = "done" /\ req[w].cause # NoError) =>
            /\ req[w].err = req[w].cause
            /\ req[w].op = "createPullRequest" =>
                  CreateErrorCode(req[w].err).code = "INTERNAL_ERROR"
            /\ req[w].op = "reassignReviewer" =>
                  ReassignErrorCode(req[w].err).code = "INTERNAL_ERROR"

(***************************************************************************)
(* C14. createTeam is all-or-nothing. The step in which a createTeam        *)
(* request returns without error stores the team row and, for every         *)
(* declared member, a user row with that team and the declared flag, and    *)
(* changes no other row; a createTeam request that returns an error, "team  *)
(* already exists" included, leaves teams and users as they were; no other  *)
(* step changes teams or users; and a getTeam request that found the team   *)
(* returns the members its createTeam declared.                             *)
(***************************************************************************)
TeamStoredBy(w) ==
    /\ req'[w].team \notin teams
    /\ teams' = teams \cup {req'[w].team}
    /\ DOMAIN users' = DOMAIN users \cup DOMAIN req'[w].members
    /\ \A u \in DOMAIN users' :
          users'[u] = IF u \in DOMAIN req'[w].members
                      THEN [team_name |-> req'[w].team,
                            is_active |-> req'[w].members[u]]
                      ELSE users[u]

TeamReturns(w) ==
    /\ req[w].pc # "done"
    /\ req'[w].pc = "done"
    /\ req'[w].op = "createTeam"

ReaderSeesMembers ==
    \A r, c \in Workers :
        ( /\ req[r].op = "getTeam"
          /\ req[r].pc = "done"
          /\ req[r].err = NoError
          /\ req[c].op = "createTeam"
          /\ req[c].team = req[r].team )
        => req[r].members = req[c].members

C14_CreateTeamAllOrNothing ==
    [][/\ \A w \in Workers :
             TeamReturns(w) =>
                IF req'[w].err = NoError
                THEN TeamStoredBy(w)
                ELSE teams' = teams /\ users' = users
       /\ (teams' # teams \/ users' # users) =>
             \E w \in Workers : TeamReturns(w) /\ req'[w].err = NoError
       /\ ReaderSeesMembers']_vars

(* A createTeam that declared a user stored in another team and an unknown  *)
(* user failed after its INSERT into teams, and both are as they were.      *)
C14_Witness ==
    \E w \in Workers :
        /\ req[w].op = "createTeam"
        /\ req[w].pc = "done"
        /\ req[w].cause = ErrBadConn
        /\ req[w].team \notin teams
        /\ \E u \in DOMAIN req[w].members :
              u \in DOMAIN users /\ users[u].team_name # req[w].team
        /\ \E u \in DOMAIN req[w].members : u \notin DOMAIN users

(***************************************************************************)
(* C15. getReviewAssignments(u) succeeds and returns, once each, exactly    *)
(* the stored pull requests whose assigned reviewers include u, OPEN or     *)
(* MERGED.                                                                  *)
(***************************************************************************)
C15_ReviewAssignmentsExact ==
    [][last'.op = "getReview" =>
          /\ last'.err = NoError
          /\ last'.pr = {[pull_request_id |-> id,
                          pull_request_name |-> prs[id].pull_request_name,
                          author_id |-> prs[id].author_id,
                          status |-> prs[id].status] :
                         id \in {i \in DOMAIN prs :
                                    last'.user \in Range(ReviewersOf(prs[i]))}}]_vars

(***************************************************************************)
(* C16. GetPullRequest of a stored pull request succeeds and returns the    *)
(* stored status and the stored reviewer list, in every state the service   *)
(* reaches; of an id that is not stored it fails with "PR not found".       *)
(***************************************************************************)
C16_GetPullRequestRoundTrips ==
    \A id \in PRIDs :
        LET got == GetPullRequest(id) IN
        IF id \in DOMAIN prs
        THEN /\ got.err = NoError
             /\ got.pr.Status = prs[id].status
             /\ got.pr.AssignedReviewers = ReviewersOf(prs[id])
             /\ Marshal(got.pr.AssignedReviewers) = prs[id].assigned_reviewers
        ELSE got.err = ErrPRNotFound

(***************************************************************************)
(* C17. reassignReviewer returns the first failure that applies, in the     *)
(* order: pull request not stored, pull request MERGED, old reviewer not    *)
(* assigned, old reviewer not a stored user, no candidate; and succeeds     *)
(* when none applies.                                                       *)
(***************************************************************************)
C17_ReassignFirstFailure ==
    [][last'.op = "reassignReviewer" =>
          LET id == last'.id
              old == last'.user
          IN  last'.err =
                IF id \notin DOMAIN prs THEN ErrPRNotFound
                ELSE IF prs[id].status = "MERGED" THEN ErrMerged
                ELSE IF old \notin Range(ReviewersOf(prs[id])) THEN ErrNotAssigned
                ELSE IF old \notin DOMAIN users THEN ErrOldReviewerNotFound
                ELSE IF ActiveTeammates(old) \ Range(ReviewersOf(prs[id])) = {}
                THEN ErrNoCandidate
                ELSE NoError]_vars

(***************************************************************************)
(* C18. setUserActive changes nothing but the active flag of the user it    *)
(* names: teams, every pull request and every other user row stay as they  *)
(* were, and the user keeps its team. A reviewer deactivated after its     *)
(* assignment is still accepted as the old reviewer of a reassignReviewer  *)
(* on an OPEN pull request, which succeeds when a candidate exists.        *)
(***************************************************************************)
C18_SetUserActiveFrame ==
    [][/\ last'.op = "setUserActive" =>
             /\ prs' = prs
             /\ teams' = teams
             /\ DOMAIN users' = DOMAIN users
             /\ \A u \in DOMAIN users :
                   /\ users'[u].team_name = users[u].team_name
                   /\ u # last'.user => users'[u] = users[u]
       /\ ( /\ last'.op = "reassignReviewer"
            /\ last'.id \in DOMAIN prs
            /\ prs[last'.id].status = "OPEN"
            /\ last'.user \in Range(ReviewersOf(prs[last'.id]))
            /\ ~users[last'.user].is_active ) =>
             /\ last'.err \in {NoError, ErrNoCandidate}
             /\ ActiveTeammates(last'.user) \ Range(ReviewersOf(prs[last'.id])) # {}
                   => last'.err = NoError]_vars

(***************************************************************************)
(* C19. Every stored pull request has status OPEN or MERGED, and its        *)
(* merged_at is set exactly when its status is MERGED, in every state of    *)
(* every interleaving.                                                      *)
(***************************************************************************)
C19_StatusAndMergedAtAgree ==
    \A id \in DOMAIN prs :
        /\ prs[id].status \in {"OPEN", "MERGED"}
        /\ prs[id].merged_at # NullTime <=> prs[id].status = "MERGED"

(* A merge request has returned MERGED and the update of a reassign request *)
(* that had fetched the row before has put it back to OPEN, merged_at with  *)
(* it.                                                                      *)
C19_Witness ==
    \E w1, w2 \in Workers :
        /\ req[w1].pc = "done"
        /\ req[w1].op = "mergePullRequest"
        /\ req[w1].err = NoError
        /\ Reassigned(w2)
        /\ req[w2].id = req[w1].id
        /\ prs[req[w1].id].status = "OPEN"
        /\ prs[req[w1].id].merged_at = NullTime

(***************************************************************************)
(* C20. Of the createPullRequest requests running at once with the same id  *)
(* at most one returns without error; its INSERT stores the row of the      *)
(* record it computed (author, reviewers, creation time), a create that     *)
(* returns an error leaves the table as it was, and the stored row stays    *)
(* the winner's while the other create runs.                                *)
(***************************************************************************)
Created(w) ==
    /\ req[w].pc = "done"
    /\ req[w].op = "createPullRequest"
    /\ req[w].err = NoError

OneCreateWins ==
    \A w1, w2 \in Workers :
        ( /\ w1 # w2
          /\ Created(w1)
          /\ req[w2].op = "createPullRequest"
          /\ req[w2].id = req[w1].id )
        => /\ ~Created(w2)
           /\ prs[req[w1].id] = InsertRow(req[w1].pr)

C20_OneCreateSucceeds ==
    [][/\ \A w \in Workers :
             (req[w].pc = "create_insert" /\ req'[w].pc = "done") =>
                IF req'[w].err = NoError
                THEN /\ req[w].id \notin DOMAIN prs
                     /\ prs' = prs @@ (req[w].id :> InsertRow(req[w].pr))
                     /\ req'[w].pr = req[w].pr
                ELSE prs' = prs
       /\ OneCreateWins']_vars

(* Two creates of one id: the one that stamped its record first ran its     *)
(* INSERT after the other's and was refused.                                *)
C20_Witness ==
    \E w1, w2 \in Workers :
        /\ w1 # w2
        /\ Created(w1)
        /\ req[w2].pc = "done"
        /\ req[w2].op = "createPullRequest"
        /\ req[w2].id = req[w1].id
        /\ req[w2].err = ErrPRExists
        /\ req[w2].cause = NoError
        /\ clock = 3
        /\ prs[req[w1].id].created_at = 2
        /\ Len(ReviewersOf(prs[req[w1].id])) = 2

====
